---------------------------- MODULE Spec2Model ----------------------------
(***************************************************************************)
(* Model of the two finance templates of the repository:                   *)
(*                                                                         *)
(*   income_statement_generator.py   rolls transaction rows up into an     *)
(*                                   income statement and prints it        *)
(*   variance_analysis_template.py   compares Actual with Budget, flags    *)
(*                                   each row and prints a table           *)
(*                                                                         *)
(* Each script is a straight-line program.  Its sections are the actions   *)
(* of the model, a loop contributes one action per iteration.  Text is     *)
(* modelled by TLA+ strings, built character by character the way the      *)
(* format specifications of the scripts build it.                          *)
(***************************************************************************)
EXTENDS Integers, Sequences, FiniteSets, TLC

VARIABLES
    script,            \* which of the two scripts this run executes
    pc,                \* the section of the script to run next
    df,                \* the input DataFrame: a sequence of rows
    revenue, cogs, gross_profit, opex, operating_income, taxes, net_income,
    statement_df,      \* income statement: sequence of statement lines
    variance_amount,   \* column df['Variance ($)']
    variance_percent,  \* column df['Variance (%)']
    status,            \* column df['Status']
    idx,               \* number of rows the print loop has handled
    out                \* the lines printed so far

\* the names the income statement script assigns
statementVars == <<revenue, cogs, gross_profit, opex, operating_income,
                   taxes, net_income, statement_df>>

\* the columns the variance script adds to its DataFrame
varianceVars == <<variance_amount, variance_percent, status>>

vars == <<script, pc, df, statementVars, varianceVars, idx, out>>

---------------------------------------------------------------------------
(* Bounds of the model *)

\* longest generated transaction table (besides the script's sample table)
MaxRows == 2

\* longest generated Actual/Budget table (besides the script's sample table)
MaxDeptRows == 2

---------------------------------------------------------------------------
(* Text helpers: str.ljust, str.rjust, str * n, number formatting *)

Abs(n) == IF n < 0 THEN -n ELSE n

RECURSIVE Repeat(_, _)
Repeat(c, n) == IF n <= 0 THEN "" ELSE c \o Repeat(c, n - 1)

\* s.ljust(w): pads on the right up to w, never shortens
ljust(s, w) == s \o Repeat(" ", w - Len(s))

\* s.rjust(w): pads on the left up to w, never shortens
rjust(s, w) == Repeat(" ", w - Len(s)) \o s

Digit(d) == <<"0", "1", "2", "3", "4", "5", "6", "7", "8", "9">>[d + 1]

\* decimal digits of a natural number
RECURSIVE Digits(_)
Digits(n) == IF n < 10 THEN Digit(n) ELSE Digits(n \div 10) \o Digit(n % 10)

\* the ',' option of a format specification: groups of three digits
RECURSIVE Grouped(_)
Grouped(n) ==
    IF n < 1000 THEN Digits(n)
    ELSE Grouped(n \div 1000) \o "," \o Digit((n \div 100) % 10)
             \o Digit((n \div 10) % 10) \o Digit(n % 10)

\* f"${abs(x):,.2f}" for an integer amount x
MoneyAbs2(x) == "$" \o Grouped(Abs(x)) \o ".00"

\* f"${x:,.0f}" for an integer x: the sign follows the dollar sign
Money0(x) == "$" \o (IF x < 0 THEN "-" ELSE "") \o Grouped(Abs(x))

---------------------------------------------------------------------------
(* income_statement_generator.py *)

SubAccounts == {"Product Sales", "Service Revenue", "Material Cost",
                "Labor Cost", "Marketing", "R&D", "G&A", "Income Tax"}

\* a sub-account no entry of the structure names
OtherSubAccount == "Other Income"

\* the amounts of generated rows
AmountValues == {-200000, -45, 1500}

\* the script's sample data
SampleData ==
    << [SubAccount |-> "Product Sales",   Amount |-> 500000],
       [SubAccount |-> "Service Revenue", Amount |-> 120000],
       [SubAccount |-> "Material Cost",   Amount |-> -200000],
       [SubAccount |-> "Labor Cost",      Amount |-> -80000],
       [SubAccount |-> "Marketing",       Amount |-> -45000],
       [SubAccount |-> "R&D",             Amount |-> -60000],
       [SubAccount |-> "G&A",             Amount |-> -30000],
       [SubAccount |-> "Income Tax",      Amount |-> -40000] >>

TransactionRows ==
    [SubAccount : SubAccounts \cup {OtherSubAccount}, Amount : AmountValues]

TransactionTables ==
    {SampleData} \cup UNION {[1..n -> TransactionRows] : n \in 0..MaxRows}

structure ==
    [Revenue           |-> <<"Product Sales", "Service Revenue">>,
     CostOfGoodsSold   |-> <<"Material Cost", "Labor Cost">>,
     GrossProfit       |-> <<>>,
     OperatingExpenses |-> <<"Marketing", "R&D", "G&A">>,
     OperatingIncome   |-> <<>>,
     Taxes             |-> <<"Income Tax">>,
     NetIncome         |-> <<>>]

Range(s) == {s[i] : i \in 1..Len(s)}

\* a plausible slip: compares with the first listed sub-account only
RECURSIVE get_total_first_only(_, _)
get_total_first_only(d, sub_accounts) ==
    IF d = <<>> THEN 0
    ELSE (IF sub_accounts # <<>> /\ Head(d).SubAccount = sub_accounts[1]
          THEN Head(d).Amount ELSE 0)
         + get_total_first_only(Tail(d), sub_accounts)

\* df[df['Sub-Account'].isin(sub_accounts)]['Amount'].sum()
RECURSIVE get_total(_, _)
get_total(d, sub_accounts) ==
    IF d = <<>> THEN 0
    ELSE (IF Head(d).SubAccount \in Range(sub_accounts)
          THEN Head(d).Amount ELSE 0)
         + get_total(Tail(d), sub_accounts)

\* a plausible slip: subtracts the (already negative) costs
RollUpSubtracting(subtotal, costs) == subtotal - costs

\* gross_profit = revenue + cogs, and the two roll-ups after it
RollUp(subtotal, costs) == subtotal + costs

Line(item, amount, type) ==
    [LineItem |-> item, Amount |-> amount, Type |-> type]

\* the statement_data literal
statement_data(d, rev, cg, gp, ox, oi, ni) ==
    << Line("Revenue", rev, "Header"),
       Line("  Product Sales", get_total(d, <<"Product Sales">>), "Detail"),
       Line("  Service Revenue", get_total(d, <<"Service Revenue">>), "Detail"),
       Line("Cost of Goods Sold", cg, "Header"),
       Line("Gross Profit", gp, "Total"),
       Line("Operating Expenses", ox, "Header"),
       Line("Operating Income", oi, "Total"),
       Line("Net Income", ni, "Grand Total") >>

\* a plausible change: every negative amount in parentheses
amount_str_all_negative(row) ==
    IF row.Amount < 0 THEN "(" \o MoneyAbs2(row.Amount) \o ")"
    ELSE MoneyAbs2(row.Amount)

\* amount_str of the print loop
amount_str(row) ==
    IF row.Amount < 0 /\ row.Type # "Total"
    THEN "(" \o MoneyAbs2(row.Amount) \o ")"
    ELSE MoneyAbs2(row.Amount)

LabelWidth == 25
AmountWidth == 15
RuleWidth == 40

\* f"{row['Line Item'].ljust(25)} {amount_str.rjust(15)}"
StatementText(row) ==
    ljust(row.LineItem, LabelWidth) \o " " \o rjust(amount_str(row), AmountWidth)

Printed(kind, text) == [kind |-> kind, text |-> text]

\* what one iteration of the print loop prints for a row
PrintedForRow(row) ==
    IF row.Type = "Grand Total"
    THEN << Printed("line", StatementText(row)),
            Printed("rule", Repeat("=", RuleWidth)) >>
    ELSE IF row.Type = "Total"
    THEN << Printed("line", StatementText(row)),
            Printed("rule", Repeat("-", RuleWidth)) >>
    ELSE << Printed("line", StatementText(row)) >>

InitStatement ==
    /\ script = "income_statement"
    /\ pc = "totals"
    /\ df \in TransactionTables
    /\ revenue = 0 /\ cogs = 0 /\ gross_profit = 0 /\ opex = 0
    /\ operating_income = 0 /\ taxes = 0 /\ net_income = 0
    /\ statement_df = <<>>
    /\ variance_amount = <<>> /\ variance_percent = <<>> /\ status = <<>>
    /\ idx = 0
    /\ out = <<>>

\* section 3 of the script
CalculateTotals ==
    /\ script = "income_statement" /\ pc = "totals"
    /\ LET rev == get_total(df, structure.Revenue)
           cg  == get_total(df, structure.CostOfGoodsSold)
           gp  == RollUp(rev, cg)
           ox  == get_total(df, structure.OperatingExpenses)
           oi  == RollUp(gp, ox)
           tx  == get_total(df, structure.Taxes)
       IN  /\ revenue' = rev
           /\ cogs' = cg
           /\ gross_profit' = gp
           /\ opex' = ox
           /\ operating_income' = oi
           /\ taxes' = tx
           /\ net_income' = RollUp(oi, tx)
    /\ pc' = "statement"
    /\ UNCHANGED <<script, df, statement_df, varianceVars, idx, out>>

\* section 4 of the script
CreateStatement ==
    /\ script = "income_statement" /\ pc = "statement"
    /\ statement_df' = statement_data(df, revenue, cogs, gross_profit, opex,
                                      operating_income, net_income)
    /\ pc' = "title"
    /\ UNCHANGED <<script, df, revenue, cogs, gross_profit, opex,
                   operating_income, taxes, net_income, varianceVars,
                   idx, out>>

\* the two prints before the loop
PrintTitle ==
    /\ script = "income_statement" /\ pc = "title"
    /\ out' = << Printed("title", "Income Statement (2023-Q1)"),
                 Printed("rule", Repeat("-", RuleWidth)) >>
    /\ pc' = "rows"
    /\ UNCHANGED <<script, df, statementVars, varianceVars, idx>>

\* one iteration of the print loop
PrintStatementRow ==
    /\ script = "income_statement" /\ pc = "rows"
    /\ idx < Len(statement_df)
    /\ out' = out \o PrintedForRow(statement_df[idx + 1])
    /\ idx' = idx + 1
    /\ pc' = IF idx + 1 = Len(statement_df) THEN "done" ELSE "rows"
    /\ UNCHANGED <<script, df, statementVars, varianceVars>>

NextStatement ==
    \/ CalculateTotals
    \/ CreateStatement
    \/ PrintTitle
    \/ PrintStatementRow

SpecStatement == InitStatement /\ [][NextStatement]_vars

---------------------------------------------------------------------------
(* variance_analysis_template.py *)

(***************************************************************************)
(* A float64 value of the script.  Within the input sets of the model the  *)
(* quotients are far from the precision of a double, so a finite value is  *)
(* kept as a sign and an exact fraction num/den; the sign is kept apart    *)
(* because a double has a negative zero.                                   *)
(***************************************************************************)
Finite(neg, num, den) == [cls |-> "finite", neg |-> neg, num |-> num, den |-> den]
Infinity(neg) == [cls |-> "inf", neg |-> neg, num |-> 1, den |-> 0]
NaN == [cls |-> "nan", neg |-> FALSE, num |-> 0, den |-> 0]

\* int64 Series / int64 Series: true division, which pandas does not let raise
TrueDivide(x, y) ==
    IF y = 0
    THEN IF x = 0 THEN NaN ELSE Infinity(x < 0)
    ELSE Finite((x < 0) # (y < 0), Abs(x), Abs(y))

\* float * 100
Times100(f) ==
    IF f.cls = "finite" THEN Finite(f.neg, f.num * 100, f.den) ELSE f

\* float > integer k and float < integer k; both are false of NaN
Greater(f, k) ==
    CASE f.cls = "nan" -> FALSE
      [] f.cls = "inf" -> ~f.neg
      [] OTHER -> (IF f.neg THEN -f.num ELSE f.num) > k * f.den

Less(f, k) ==
    CASE f.cls = "nan" -> FALSE
      [] f.cls = "inf" -> f.neg
      [] OTHER -> (IF f.neg THEN -f.num ELSE f.num) < k * f.den

\* plausible slips of the lambda: inclusive thresholds, inverted polarity
StatusInclusive(x) ==
    IF ~Less(x, 10) /\ x.cls # "nan" THEN "Red"
    ELSE IF ~Greater(x, -10) /\ x.cls # "nan" THEN "Green" ELSE "Yellow"

StatusRevenuePolarity(x) ==
    IF Greater(x, 10) THEN "Green"
    ELSE IF Less(x, -10) THEN "Red" ELSE "Yellow"

\* lambda x: 'Red' if x > 10 else ('Green' if x < -10 else 'Yellow')
Status(x) ==
    IF Greater(x, 10) THEN "Red"
    ELSE IF Less(x, -10) THEN "Green" ELSE "Yellow"

\* n/d rounded to the nearest integer, a tie to the even one.  The format
\* rounds the binary value of the double, which differs from this on a
\* decimal tie a double cannot hold (99.85); no percentage of the input
\* sets below lies on a tie.
RoundHalfEven(n, d) ==
    LET q == n \div d
        r == n % d
    IN  IF 2 * r < d THEN q
        ELSE IF 2 * r > d THEN q + 1
        ELSE IF q % 2 = 0 THEN q ELSE q + 1

\* f"{x:.1f}%"
PercentText(x) ==
    CASE x.cls = "nan" -> "nan%"
      [] x.cls = "inf" -> (IF x.neg THEN "-inf%" ELSE "inf%")
      [] OTHER ->
           LET tenths == RoundHalfEven(x.num * 10, x.den)
           IN  (IF x.neg THEN "-" ELSE "") \o Digits(tenths \div 10)
                   \o "." \o Digit(tenths % 10) \o "%"

Departments == {"Sales", "Engineering"}
ActualValues == {-120, 0, 90, 110, 120}
BudgetValues == {-100, 0, 100}

\* the script's sample data
SampleBudgetData ==
    << [Department |-> "Sales",       Actual |-> 120000, Budget |-> 100000],
       [Department |-> "Marketing",   Actual |-> 45000,  Budget |-> 50000],
       [Department |-> "Engineering", Actual |-> 150000, Budget |-> 140000],
       [Department |-> "HR",          Actual |-> 20000,  Budget |-> 20000],
       [Department |-> "Finance",     Actual |-> 25000,  Budget |-> 22000] >>

BudgetRows ==
    [Department : Departments, Actual : ActualValues, Budget : BudgetValues]

BudgetTables ==
    {SampleBudgetData} \cup UNION {[1..n -> BudgetRows] : n \in 0..MaxDeptRows}

DepartmentWidth == 15
NumberWidth == 10
StatusWidth == 8
ReportRuleWidth == 60

\* the header row of the table
ReportHeaderText ==
    ljust("Department", DepartmentWidth) \o " "
        \o rjust("Actual", NumberWidth) \o " "
        \o rjust("Budget", NumberWidth) \o " "
        \o rjust("Var ($)", NumberWidth) \o " "
        \o rjust("Var (%)", NumberWidth) \o " "
        \o rjust("Status", StatusWidth)

(***************************************************************************)
(* The text a data row prints.  The department literal and the Actual      *)
(* literal are adjacent string literals, which Python joins into one       *)
(* literal before it applies .rjust(10): the first rjust receives the      *)
(* department column and the Actual amount together.                       *)
(***************************************************************************)
ReportRowText(row, amount, percent, flag) ==
    rjust(ljust(row.Department, DepartmentWidth) \o " " \o Money0(row.Actual),
          NumberWidth) \o " "
        \o rjust(Money0(row.Budget), NumberWidth) \o " "
        \o rjust(Money0(amount), NumberWidth) \o " "
        \o rjust(PercentText(percent), NumberWidth) \o " "
        \o rjust(flag, StatusWidth)

InitVariance ==
    /\ script = "variance_analysis"
    /\ pc = "variance"
    /\ df \in BudgetTables
    /\ revenue = 0 /\ cogs = 0 /\ gross_profit = 0 /\ opex = 0
    /\ operating_income = 0 /\ taxes = 0 /\ net_income = 0
    /\ statement_df = <<>>
    /\ variance_amount = <<>> /\ variance_percent = <<>> /\ status = <<>>
    /\ idx = 0
    /\ out = <<>>

\* section 2 of the script: two column assignments
CalculateVariance ==
    /\ script = "variance_analysis" /\ pc = "variance"
    /\ LET amount == [i \in 1..Len(df) |-> df[i].Actual - df[i].Budget]
       IN  /\ variance_amount' = amount
           /\ variance_percent' =
                  [i \in 1..Len(df) |->
                      Times100(TrueDivide(amount[i], df[i].Budget))]
    /\ pc' = "flag"
    /\ UNCHANGED <<script, df, statementVars, status, idx, out>>

\* section 3 of the script
FlagVariances ==
    /\ script = "variance_analysis" /\ pc = "flag"
    /\ status' = [i \in 1..Len(df) |-> Status(variance_percent[i])]
    /\ pc' = "header"
    /\ UNCHANGED <<script, df, statementVars, variance_amount,
                   variance_percent, idx, out>>

\* the four prints before the loop
PrintReportHeader ==
    /\ script = "variance_analysis" /\ pc = "header"
    /\ out' = << Printed("title", "Variance Analysis Report"),
                 Printed("rule", Repeat("=", ReportRuleWidth)),
                 Printed("header", ReportHeaderText),
                 Printed("rule", Repeat("-", ReportRuleWidth)) >>
    /\ pc' = IF Len(df) = 0 THEN "done" ELSE "rows"
    /\ UNCHANGED <<script, df, statementVars, varianceVars, idx>>

\* one iteration of the print loop
PrintReportRow ==
    /\ script = "variance_analysis" /\ pc = "rows"
    /\ idx < Len(df)
    /\ out' = Append(out, Printed("row",
                  ReportRowText(df[idx + 1], variance_amount[idx + 1],
                                variance_percent[idx + 1], status[idx + 1])))
    /\ idx' = idx + 1
    /\ pc' = IF idx + 1 = Len(df) THEN "done" ELSE "rows"
    /\ UNCHANGED <<script, df, statementVars, varianceVars>>

NextVariance ==
    \/ CalculateVariance
    \/ FlagVariances
    \/ PrintReportHeader
    \/ PrintReportRow

SpecVariance == InitVariance /\ [][NextVariance]_vars

---------------------------------------------------------------------------
(* Properties of the income statement *)

TotalsComputed == script = "income_statement" /\ pc # "totals"

StatementBuilt ==
    script = "income_statement" /\ pc \in {"title", "rows", "done"}

\* the sum of the amounts of the rows whose sub-account is in S
RECURSIVE SumOfRows(_, _)
SumOfRows(rows, S) ==
    IF rows = {} THEN 0
    ELSE LET i == CHOOSE j \in rows : TRUE
         IN  (IF df[i].SubAccount \in S THEN df[i].Amount ELSE 0)
                 + SumOfRows(rows \ {i}, S)

AmountUnder(S) == SumOfRows(DOMAIN df, S)

\* the amount of the statement line with the given label
LineAmount(item) ==
    LET i == CHOOSE j \in DOMAIN statement_df : statement_df[j].LineItem = item
    IN  statement_df[i].Amount

(* C1: for every table of rows, a sub-account without a row counting 0,    *)
(* Gross Profit = Revenue + COGS, Operating Income = Gross Profit + OpEx,  *)
(* Net Income = Operating Income + Taxes, so Net Income is the signed sum  *)
(* of the four totals; the statement carries these amounts; the sample     *)
(* rows give 620000, -280000, 340000, -135000, 205000 and 165000.          *)
RollUpReconciles ==
    TotalsComputed =>
        /\ revenue = AmountUnder({"Product Sales", "Service Revenue"})
        /\ cogs = AmountUnder({"Material Cost", "Labor Cost"})
        /\ opex = AmountUnder({"Marketing", "R&D", "G&A"})
        /\ taxes = AmountUnder({"Income Tax"})
        /\ gross_profit = revenue + cogs
        /\ operating_income = gross_profit + opex
        /\ net_income = operating_income + taxes
        /\ net_income = revenue + cogs + opex + taxes
        /\ StatementBuilt =>
              /\ LineAmount("Revenue") = revenue
              /\ LineAmount("Cost of Goods Sold") = cogs
              /\ LineAmount("Operating Expenses") = opex
              /\ LineAmount("Gross Profit")
                     = LineAmount("Revenue") + LineAmount("Cost of Goods Sold")
              /\ LineAmount("Operating Income")
                     = LineAmount("Gross Profit") + LineAmount("Operating Expenses")
              /\ LineAmount("Net Income") = LineAmount("Operating Income") + taxes
        /\ df = SampleData =>
              /\ revenue = 620000 /\ cogs = -280000 /\ gross_profit = 340000
              /\ opex = -135000 /\ operating_income = 205000
              /\ net_income = 165000

\* a finished statement whose table has no row for the cost sub-accounts
RollUpWithMissingSubAccounts ==
    /\ script = "income_statement" /\ pc = "done"
    /\ \A i \in DOMAIN df : df[i].SubAccount \in {"Product Sales", "Income Tax"}
    /\ revenue = 1500 /\ cogs = 0 /\ opex = 0 /\ taxes = -45
    /\ LineAmount("Net Income") = 1455

\* the sum of the run of Detail lines that starts at line i
RECURSIVE DetailSumFrom(_, _)
DetailSumFrom(lines, i) ==
    IF i > Len(lines) \/ lines[i].Type # "Detail" THEN 0
    ELSE lines[i].Amount + DetailSumFrom(lines, i + 1)

HasDetailUnder(lines, h) == h < Len(lines) /\ lines[h + 1].Type = "Detail"

(* C4, as claimed: in the built statement the Detail lines under every     *)
(* Header line (Revenue, Cost of Goods Sold, Operating Expenses) sum to    *)
(* that header's amount.                                                   *)
DetailsSumToEveryHeader ==
    StatementBuilt =>
        \A h \in DOMAIN statement_df :
            statement_df[h].Type = "Header" =>
                DetailSumFrom(statement_df, h + 1) = statement_df[h].Amount

(* C4, amended: the Detail lines under every Header line that has Detail   *)
(* lines under it (Revenue is the only one) sum to that header's amount.   *)
DetailsSumToTheirHeader ==
    StatementBuilt =>
        \A h \in DOMAIN statement_df :
            statement_df[h].Type = "Header" /\ HasDetailUnder(statement_df, h) =>
                DetailSumFrom(statement_df, h + 1) = statement_df[h].Amount

\* a statement whose Revenue header has two non-zero Detail lines under it
RevenueWithTwoDetails ==
    /\ StatementBuilt
    /\ statement_df[1].LineItem = "Revenue"
    /\ HasDetailUnder(statement_df, 1)
    /\ statement_df[2].Amount # 0 /\ statement_df[3].Amount # 0
    /\ statement_df[1].Amount = statement_df[2].Amount + statement_df[3].Amount

LabelsAndTypes(lines) ==
    [i \in DOMAIN lines |-> <<lines[i].LineItem, lines[i].Type>>]

OrderBeforeTaxes ==
    << <<"Revenue", "Header">>, <<"  Product Sales", "Detail">>,
       <<"  Service Revenue", "Detail">>, <<"Cost of Goods Sold", "Header">>,
       <<"Gross Profit", "Total">>, <<"Operating Expenses", "Header">>,
       <<"Operating Income", "Total">> >>

HasTaxesRow == \E i \in DOMAIN df : df[i].SubAccount \in Range(structure.Taxes)

(* C5: the lines come in the order Revenue header, its details, COGS       *)
(* header, Gross Profit, OpEx header, Operating Income, Taxes header, Net  *)
(* Income; the Taxes header is there whenever the table has a Taxes        *)
(* sub-account row and is left out only when it has none.                  *)
TaxesLineInFixedOrder ==
    StatementBuilt =>
        LabelsAndTypes(statement_df) =
            OrderBeforeTaxes
                \o (IF HasTaxesRow THEN << <<"Taxes", "Header">> >> ELSE <<>>)
                \o << <<"Net Income", "Grand Total">> >>

\* the printed statement lines, without title and rules
StatementLinesOf(printed) == SelectSeq(printed, LAMBDA p : p.kind = "line")

(* C6: the amount of a printed line is the parenthesised magnitude exactly *)
(* when the amount is negative and the line is a Header, Detail or Grand   *)
(* Total; a Total line and a line with amount >= 0 show the bare           *)
(* magnitude, so a negative Total prints as the positive one does.         *)
ParenthesesExceptTotals ==
    script = "income_statement" =>
        \A k \in 1..Len(StatementLinesOf(out)) :
            LET row == statement_df[k]
                magnitude == "$" \o Grouped(Abs(row.Amount)) \o ".00"
                shown == IF row.Amount < 0
                            /\ row.Type \in {"Header", "Detail", "Grand Total"}
                         THEN "(" \o magnitude \o ")" ELSE magnitude
            IN  /\ StatementLinesOf(out)[k].text
                       = ljust(row.LineItem, 25) \o " " \o rjust(shown, 15)
                /\ row.Type = "Total" =>
                       StatementLinesOf(out)[k].text
                           = StatementText([row EXCEPT !.Amount = Abs(row.Amount)])

\* a printed statement with a negative Header, Total and Grand Total
NegativeTotalPrinted ==
    /\ script = "income_statement" /\ pc = "done"
    /\ cogs < 0 /\ gross_profit < 0 /\ net_income < 0
    /\ \E k \in DOMAIN out :
           out[k].text = "Gross Profit                  $200,000.00"
    /\ \E k \in DOMAIN out :
           out[k].text = "Net Income                  ($200,000.00)"

(* C7: every printed statement line and every separator rule after a Total *)
(* or Grand Total line has one and the same width.                         *)
LinesAndRulesOneWidth ==
    script = "income_statement" =>
        \A i, j \in DOMAIN out :
            i > 2 /\ j > 2 => Len(out[i].text) = Len(out[j].text)

---------------------------------------------------------------------------
(* Properties of the variance report *)

Flagged == script = "variance_analysis" /\ pc \in {"header", "rows", "done"}

\* variancePercent > 10 and < -10, decided on the integers of the row
Over10Percent(a, b) ==
    IF b > 0 THEN 100 * (a - b) > 10 * b ELSE 100 * (a - b) < 10 * b

UnderMinus10Percent(a, b) ==
    IF b > 0 THEN 100 * (a - b) < -10 * b ELSE 100 * (a - b) > -10 * b

(* C2: for every row with budget # 0 the status is Red exactly when        *)
(* (actual - budget) / budget * 100 > 10, Green exactly when it is < -10,  *)
(* Yellow otherwise; exactly 10 and exactly -10 are Yellow; 120000 against *)
(* 100000 is Red and 45000 against 50000 is Yellow.                        *)
StatusByThresholds ==
    Flagged =>
        \A i \in DOMAIN df :
            LET a == df[i].Actual
                b == df[i].Budget
            IN  b # 0 =>
                  /\ status[i] = "Red" <=> Over10Percent(a, b)
                  /\ status[i] = "Green" <=> UnderMinus10Percent(a, b)
                  /\ status[i] = "Yellow" <=>
                         ~Over10Percent(a, b) /\ ~UnderMinus10Percent(a, b)
                  /\ 10 * Abs(a - b) = Abs(b) => status[i] = "Yellow"
                  /\ a = 120000 /\ b = 100000 => status[i] = "Red"
                  /\ a = 45000 /\ b = 50000 => status[i] = "Yellow"

\* flagged rows at exactly +10 % and exactly -10 %
BoundaryRowsFlagged ==
    /\ Flagged
    /\ \E i, j \in DOMAIN df :
           /\ df[i].Actual = 110 /\ df[i].Budget = 100 /\ status[i] = "Yellow"
           /\ df[j].Actual = 90 /\ df[j].Budget = 100 /\ status[j] = "Yellow"

(* C3: for every row with budget = 0, whatever the actual, the percentage  *)
(* is the not-a-number sentinel and the status is Yellow.                  *)
ZeroBudgetIsYellow ==
    Flagged =>
        \A i \in DOMAIN df :
            df[i].Budget = 0 =>
                variance_percent[i].cls = "nan" /\ status[i] = "Yellow"

\* the layout of the header row, applied to the fields of a data row
ColumnsOf(row, amount, percent, flag) ==
    ljust(row.Department, 15) \o " "
        \o rjust(Money0(row.Actual), 10) \o " "
        \o rjust(Money0(row.Budget), 10) \o " "
        \o rjust(Money0(amount), 10) \o " "
        \o rjust(PercentText(percent), 10) \o " "
        \o rjust(flag, 8)

FitsColumns(row, amount, percent, flag) ==
    /\ Len(row.Department) <= 15
    /\ Len(Money0(row.Actual)) <= 10 /\ Len(Money0(row.Budget)) <= 10
    /\ Len(Money0(amount)) <= 10 /\ Len(PercentText(percent)) <= 10
    /\ Len(flag) <= 8

(* C8: every data row whose values fit their columns is laid out in the    *)
(* columns of the header row (15, 10, 10, 10, 10, 8, one space between),   *)
(* so it is as wide as the header row and each field ends where its        *)
(* header label ends.                                                      *)
RowsInHeaderColumns ==
    script = "variance_analysis" =>
        \A k \in 1..idx :
            FitsColumns(df[k], variance_amount[k], variance_percent[k], status[k])
            =>  /\ out[4 + k].text
                       = ColumnsOf(df[k], variance_amount[k],
                                   variance_percent[k], status[k])
                /\ Len(out[4 + k].text) = Len(out[3].text)

=============================================================================
